---- MODULE Spec2Model ----
(***************************************************************************)
(* Model of the Jito relay client of jup-hedge (src/src/utils/transfer.ts):*)
(* sendBundle, getBundleStatuses, getBundleInflightStatuses,               *)
(* waitForBundleConfirmation and submitAndConfirmBundle.                   *)
(*                                                                         *)
(* One call of one exported function runs at a time.  pc is the position   *)
(* of that call: every await of the source is a separate position, and the *)
(* relay's answer to a request is drawn from a small set when the request  *)
(* completes.  Time is in milliseconds; network time is zero, only the     *)
(* setTimeout waits of the source advance the clock.                       *)
(*                                                                         *)
(* The builder hooks (src/src/hooks/useDriftShort.ts, src/unnamed/part_001)*)
(* run under SpecHooks (calls may overlap at their awaits) and SpecHooksSeq*)
(* (one call at a time); createTipTransaction runs under SpecTip; the      *)
(* instruction builders of the Drift transactions run under SpecBuild.     *)
(* Every specification leaves the variables of the others alone.           *)
(* Every specification starts from Init, where nothing is running.         *)
(***************************************************************************)
EXTENDS Integers, Sequences, FiniteSets, TLC

VARIABLES
    pc,              \* position of the running call
    op,              \* the exported function that was called
    transactions,    \* sendBundle / submitAndConfirmBundle: the input list
    bundleIds,       \* getBundleStatuses / getBundleInflightStatuses: the input handles
    endpoint,        \* the endpoint argument of the relay function now running
    bundleId,        \* waitForBundleConfirmation: the polled handle
    timeoutMs,       \* waitForBundleConfirmation: the budget
    pollIntervalMs,  \* waitForBundleConfirmation: the interval
    startTime,       \* waitForBundleConfirmation: Date.now() at entry
    now,             \* the clock
    statuses,        \* waitForBundleConfirmation: this tick's getBundleStatuses value
    req,             \* the request in flight
    result,          \* what the call settled with
    nSend,           \* sendBundle requests issued by the call
    nStatus,         \* getBundleStatuses requests issued by the call
    nInflight,       \* getInflightBundleStatuses requests issued by the call
    sendData,        \* the relay's answer to sendBundle, or to a direct status query
    seen             \* what the ticks of the polling loop have met so far

relayVars == <<pc, op, transactions, bundleIds, endpoint, bundleId, timeoutMs,
               pollIntervalMs, startTime, now, statuses, req, result, nSend,
               nStatus, nInflight, sendData, seen>>

VARIABLES
    call,            \* per call of a builder function: its position and its locals
    hookState,       \* per hook: the OperationState held by useState
    expectedOutput,  \* useJupiterSwap: the expectedOutput held by useState
    driftClientRef,  \* useDriftShort: driftClientRef.current (0: null)
    clients          \* the DriftClient objects created so far

hookVars == <<call, hookState, expectedOutput, driftClientRef, clients>>

VARIABLES
    tip,             \* the createTipTransaction / getRandomTipAccount call: position and locals
    tipHistory       \* the tip accounts the calls so far have selected

tipVars == <<tip, tipHistory>>

VARIABLES
    built            \* the last call of a Drift transaction builder: arguments and outcome

buildVars == <<built>>

VARIABLES
    omitted          \* how many trailing arguments the caller of the call left out

argVars == <<omitted>>

nonRelayVars == <<hookVars, tipVars, buildVars, argVars>>
nonHookVars == <<relayVars, tipVars, buildVars, argVars>>
nonTipVars == <<relayVars, hookVars, buildVars, argVars>>
nonBuildVars == <<relayVars, hookVars, tipVars, argVars>>

vars == <<relayVars, hookVars, tipVars, buildVars, argVars>>

-----------------------------------------------------------------------------
(* Bounds of the model *)

\* longest transaction list handed to sendBundle / submitAndConfirmBundle
MaxTxs == 6
\* longest handle list handed to a direct status query
MaxIds == 2
\* budgets are 0, 500, ..., 500 * MaxTimeoutSteps milliseconds
MaxTimeoutSteps == 10
\* intervals are 500, ..., 500 * MaxPollSteps milliseconds
MaxPollSteps == 4
\* DriftClient objects created in one behaviour
MaxClients == 2
\* the relay answers getTipAccounts with at most MaxAccounts addresses
MaxAccounts == 3
\* getInitializeUserAccountIxs gives at most MaxInitIxs instructions
MaxInitIxs == 2

\* README, Jito Bundle Requirements: minimum tip
MinTipLamports == 1000
DEFAULT_TIP_LAMPORTS == 10000

(* Program constants *)

\* await new Promise((resolve) => setTimeout(resolve, 1000)) after the status query
StatusDelayMs == 1000
\* await new Promise((resolve) => setTimeout(resolve, 1000)) after the inflight query
InflightDelayMs == 1000
\* pollIntervalMs: number = 2000
DefaultPollIntervalMs == 2000
\* waitForBundleConfirmation: timeoutMs: number = 60000
DefaultWaitTimeoutMs == 60000
\* submitAndConfirmBundle: timeoutMs: number = 600000
DefaultSubmitTimeoutMs == 600000

-----------------------------------------------------------------------------
(* Values *)

Txs == {"t1", "t2"}
Handles == {"b1", "b2"}
Hosts == {"amsterdam", "tokyo"}
RelayMsgs == {"m1", "m2"}
ConfirmationStatuses == {"processed", "confirmed", "finalized"}
\* err of a status record: null, a falsy non-null value (0, "", false), or an object
ErrVals == {"null", "errA", "errB", "falsy"}

TimeoutChoices == {500 * k : k \in 0..MaxTimeoutSteps}
PollChoices == {500 * k : k \in 1..MaxPollSteps}

\* an argument: written by the caller, or left out
Given(v) == [given |-> TRUE, v |-> v]
Omitted == [given |-> FALSE]

\* the polling of a call whose budget is one of TimeoutChoices is over before
\* the clock has advanced this far; ticks are followed up to here
ClockHorizon ==
    500 * MaxTimeoutSteps + StatusDelayMs + InflightDelayMs + 500 * MaxPollSteps

SeqsUpTo(S, n) == UNION {[1..k -> S] : k \in 0..n}

\* a slot of a status list: null, or a record
NullSlot == [present |-> FALSE, confirmation_status |-> "none", err |-> "null"]
StatusRecords == [present : {TRUE}, confirmation_status : ConfirmationStatuses, err : ErrVals]
Slots == {NullSlot} \cup StatusRecords

\* the body of a relay response, or the failure of the HTTP request itself
NetFail == [kind |-> "netfail", msg |-> "", handle |-> "", value |-> <<>>]
ErrorEnvelope(m) == [kind |-> "error", msg |-> m, handle |-> "", value |-> <<>>]
NoResultData == [kind |-> "noresult", msg |-> "", handle |-> "", value |-> <<>>]
HandleData(h) == [kind |-> "result", msg |-> "", handle |-> h, value |-> <<>>]
ValueData(v) == [kind |-> "result", msg |-> "", handle |-> "", value |-> v]
NoData == [kind |-> "none", msg |-> "", handle |-> "", value |-> <<>>]

SendBundleAnswers ==
    {NetFail, NoResultData} \cup {ErrorEnvelope(m) : m \in RelayMsgs}
        \cup {HandleData(h) : h \in Handles}

\* the relay answers a status query for n handles with a list of at most n slots
StatusAnswers(n) ==
    {NetFail, NoResultData} \cup {ErrorEnvelope(m) : m \in RelayMsgs}
        \cup {ValueData(v) : v \in SeqsUpTo(Slots, n)}

NoReq == [method |-> "none", host |-> "", txs |-> <<>>, ids |-> <<>>]
Pending == [state |-> "pending", bundleId |-> "", success |-> FALSE,
            error |-> <<>>, value |-> <<>>]

\* the body of the getTipAccounts response: data.result is the list itself
ListData(l) == [kind |-> "list", msg |-> "", handle |-> "", value |-> l]

TipAccounts == {"a1", "a2", "a3"}
Payers == {"p1", "p2"}
Blockhashes == {"h1"}
\* tipLamports as passed: omitted, or a number of lamports
TipArgs == {[given |-> FALSE, n |-> 0]}
               \cup {[given |-> TRUE, n |-> n] : n \in {0, 500, 999, 1000, 50000}}

TipAccountsAnswers ==
    {NetFail, NoResultData} \cup {ErrorEnvelope(m) : m \in RelayMsgs}
        \cup {ListData(l) : l \in SeqsUpTo(TipAccounts, MaxAccounts)}

NoTx == [payerKey |-> "", recentBlockhash |-> "", instructions |-> <<>>]
\* the tip call: op is the exported function called, data the body of the
\* getTipAccounts response, addresses what getTipAccounts returned, account the
\* selected tip account, out the settlement of the promise
IdleTip == [pc |-> "idle", op |-> "none", payer |-> "", arg |-> [given |-> FALSE, n |-> 0],
            data |-> NoData, addresses |-> <<>>, account |-> "", blockhash |-> "",
            out |-> "none", tx |-> NoTx]

\* a Drift builder call that has not happened
NoBuild == [fn |-> "none"]

\* the hooks, and the call slots of the builder functions they return
Hooks == {"useDriftShort", "useJupiterSwap", "useTokenTransfer"}
Calls == {1, 2}
\* OperationState: { status, data?, error? }
OpState(status, data, error) == [status |-> status, data |-> data, error |-> error]
IdleState == OpState("idle", "", "")
\* a call slot: pc is the position of the call, fn the builder function, driftClient
\* its local client (0: none yet), target the argument of the cleanupDriftClient
\* call in flight, error the error its catch block holds, transaction its local
\* transaction, ret what its promise settled with
IdleCall == [pc |-> "idle", fn |-> "none", driftClient |-> 0, target |-> 0,
             error |-> "", transaction |-> "", ret |-> "none"]

-----------------------------------------------------------------------------
(* sendBundle *)

\* Buffer.from(transaction.serialize()).toString('base64')
EncodeTransaction(tx) == [encoding |-> "base64", bytes |-> tx]

\* mutant: the list is built back to front
EncodeTransactionsReversed(txs) ==
    [i \in 1..Len(txs) |-> EncodeTransaction(txs[Len(txs) + 1 - i])]

\* transactions.map((transaction) => ...)
EncodeTransactions(txs) == [i \in 1..Len(txs) |-> EncodeTransaction(txs[i])]

\* the relay host a request goes to: the URL literal of the axios.post call,
\* whatever the endpoint argument is
RequestHost(method, ep) == "amsterdam"

SendBundleRequest(txs, ep) ==
    [method |-> "sendBundle", host |-> RequestHost("sendBundle", ep),
     txs |-> EncodeTransactions(txs), ids |-> <<>>]

Throws(e) == [throws |-> TRUE, error |-> e, handle |-> "", value |-> <<>>]
ReturnsHandle(h) == [throws |-> FALSE, error |-> <<>>, handle |-> h, value |-> <<>>]
ReturnsValue(v) == [throws |-> FALSE, error |-> <<>>, handle |-> "", value |-> v]

\* mutant: data.error is not looked at, data.result is returned
SendBundleOutcomeNoErrorCheck(data) ==
    CASE data.kind = "netfail" -> Throws(<<"Network Error">>)
      [] data.kind = "result" -> ReturnsHandle(data.handle)
      [] OTHER -> ReturnsHandle("undefined")

\* what sendBundle does with the answer: axios rejects, data.error throws,
\* otherwise data.result is returned (undefined when the answer has none)
SendBundleOutcome(data) ==
    CASE data.kind = "netfail" -> Throws(<<"Network Error">>)
      [] data.kind = "error" -> Throws(<<"sendBundle failed: ", data.msg>>)
      [] data.kind = "noresult" -> ReturnsHandle("undefined")
      [] OTHER -> ReturnsHandle(data.handle)

-----------------------------------------------------------------------------
(* getBundleStatuses, getBundleInflightStatuses *)

StatusRequest(ids, ep) ==
    [method |-> "getBundleStatuses", host |-> RequestHost("getBundleStatuses", ep),
     txs |-> <<>>, ids |-> ids]

InflightRequest(ids, ep) ==
    [method |-> "getInflightBundleStatuses",
     host |-> RequestHost("getInflightBundleStatuses", ep),
     txs |-> <<>>, ids |-> ids]

\* return data.result?.value || []
GetBundleStatusesOutcome(data) ==
    CASE data.kind = "netfail" -> Throws(<<"Network Error">>)
      [] data.kind = "error" -> Throws(<<"getBundleStatuses failed: ", data.msg>>)
      [] data.kind = "noresult" -> ReturnsValue(<<>>)
      [] OTHER -> ReturnsValue(data.value)

GetBundleInflightStatusesOutcome(data) ==
    CASE data.kind = "netfail" -> Throws(<<"Network Error">>)
      [] data.kind = "error" -> Throws(<<"getInflightBundleStatuses failed: ", data.msg>>)
      [] data.kind = "noresult" -> ReturnsValue(<<>>)
      [] OTHER -> ReturnsValue(data.value)

-----------------------------------------------------------------------------
(* waitForBundleConfirmation *)

\* mutant: a budget of 0 read as no budget at all
LoopConditionNoBudget(t, start, budget) == budget = 0 \/ t - start < budget

\* mutant: <= in place of <
LoopConditionInclusive(t, start, budget) == t - start <= budget

\* while (Date.now() - startTime < timeoutMs)
LoopCondition(t, start, budget) == t - start < budget

\* const status = statuses[0]  (undefined on an empty list)
FirstStatus(list) == IF Len(list) = 0 THEN NullSlot ELSE list[1]

\* if (status.err): JavaScript truthiness
Truthy(err) == err \notin {"null", "falsy"}

JSONStringify(err) == <<"JSON", err>>

Landed(id) == [state |-> "resolved", bundleId |-> id, success |-> TRUE,
               error |-> <<>>, value |-> <<>>]
Failed(id, e) == [state |-> "resolved", bundleId |-> id, success |-> FALSE,
                  error |-> e, value |-> <<>>]
TimedOut(id) == Failed(id, <<"Bundle confirmation timeout">>)

\* mutant: any confirmation level counts as landed
TickDecisionAnyLevel(list, id) ==
    LET status == FirstStatus(list) IN
    IF ~status.present THEN Pending
    ELSE IF status.confirmation_status \in ConfirmationStatuses THEN Landed(id)
    ELSE IF Truthy(status.err) THEN Failed(id, JSONStringify(status.err))
    ELSE Pending

\* the body of  if (status) { ... }: the result returned, or Pending when
\* nothing is returned and the tick goes on to the wait
TickDecision(list, id) ==
    LET status == FirstStatus(list) IN
    IF ~status.present THEN Pending
    ELSE IF status.confirmation_status \in {"confirmed", "finalized"} THEN Landed(id)
    ELSE IF Truthy(status.err) THEN Failed(id, JSONStringify(status.err))
    ELSE Pending

\* mutant: the result is produced but the loop is not left
AfterDecisionNoReturn(d) == "wait"

\* mutant: a result that is not a success sends the bundle again
AfterDecisionResend(d) ==
    IF d.state = "pending" THEN "wait" ELSE IF d.success THEN "done" ELSE "send"

\* a return leaves the loop; otherwise the tick reaches the wait
AfterDecision(d) == IF d.state = "pending" THEN "wait" ELSE "done"

\* mutant: the catch block returns the query's error
CatchDecisionSurfaces(e, id) == Failed(id, e)

\* catch (error) { console.warn('Error polling bundle status:', error) }:
\* nothing is returned
CatchDecision(e, id) == Pending

\* what a returned status list adds to the log of the loop
StatusKind(list) ==
    LET status == FirstStatus(list) IN
    IF ~status.present THEN "absent"
    ELSE IF status.confirmation_status \in {"confirmed", "finalized"}
            \/ status.err # "null" THEN "terminal"
    ELSE "quiet"

\* a default parameter: the default stands in for an argument left out
DefaultTo(arg, default) == IF arg.given THEN arg.v ELSE default

\* the parameters of waitForBundleConfirmation(bundleId, ep, budget, interval)
WaitParams(ep, budget, interval) ==
    [endpoint |-> DefaultTo(ep, "amsterdam"),
     timeoutMs |-> DefaultTo(budget, DefaultWaitTimeoutMs),
     pollIntervalMs |-> DefaultTo(interval, DefaultPollIntervalMs)]

-----------------------------------------------------------------------------
(* submitAndConfirmBundle *)

\* mutant: the budget of a bare confirmation call as the default
SubmitTimeoutMsWaitDefault(budget) == DefaultTo(budget, DefaultWaitTimeoutMs)

\* the timeoutMs parameter of submitAndConfirmBundle(transactions, budget)
SubmitTimeoutMs(budget) == DefaultTo(budget, DefaultSubmitTimeoutMs)

\* mutant: a catch block that throws the error on
SubmitCatchRethrows(e) == [Pending EXCEPT !.state = "rejected", !.error = e]

\* catch (error) { return { bundleId: '', success: false, error: error.message } }
SubmitCatch(e) == Failed("", e)

\* the endpoint literals submitAndConfirmBundle passes on
SubmitEndpoint == "tokyo"

-----------------------------------------------------------------------------
(* The state after loading the module: no call is running *)

Init ==
    /\ pc = "idle"
    /\ op = "none"
    /\ transactions = <<>>
    /\ bundleIds = <<>>
    /\ endpoint = ""
    /\ bundleId = ""
    /\ timeoutMs = 0
    /\ pollIntervalMs = 0
    /\ startTime = 0
    /\ now = 0
    /\ statuses = <<>>
    /\ req = NoReq
    /\ result = Pending
    /\ nSend = 0
    /\ nStatus = 0
    /\ nInflight = 0
    /\ sendData = NoData
    /\ seen = {}
    /\ call = [c \in Calls |-> IdleCall]
    /\ tip = IdleTip
    /\ tipHistory = {}
    /\ built = NoBuild
    /\ omitted = 0
    /\ hookState = [h \in Hooks |-> IdleState]
    /\ expectedOutput = "null"
    /\ driftClientRef = 0
    /\ clients = <<>>

-----------------------------------------------------------------------------
(* Calls of sendBundle, getBundleStatuses, getBundleInflightStatuses *)

\* sendBundle(transactions, endpoint) up to the await of axios.post
CallSendBundle ==
    /\ pc = "idle"
    /\ UNCHANGED nonRelayVars
    /\ \E txs \in SeqsUpTo(Txs, MaxTxs), ep \in Hosts :
       /\ op' = "sendBundle"
       /\ transactions' = txs
       /\ endpoint' = ep
       /\ req' = SendBundleRequest(txs, ep)
       /\ nSend' = nSend + 1
       /\ pc' = "send"
       /\ UNCHANGED <<bundleIds, bundleId, timeoutMs, pollIntervalMs, startTime, now,
                      statuses, result, nStatus, nInflight, sendData, seen>>

\* a direct sendBundle call settles: the handle, or the thrown error
\* (the transaction list is not read after the request completes and is dropped)
SendBundleSettles ==
    /\ pc = "send"
    /\ UNCHANGED nonRelayVars
    /\ op = "sendBundle"
    /\ \E data \in SendBundleAnswers :
       /\ LET o == SendBundleOutcome(data) IN
          result' = IF o.throws
                    THEN [Pending EXCEPT !.state = "rejected", !.error = o.error]
                    ELSE [Pending EXCEPT !.state = "resolved", !.bundleId = o.handle]
       /\ sendData' = data
       /\ req' = NoReq
       /\ transactions' = <<>>
       /\ pc' = "done"
       /\ UNCHANGED <<op, bundleIds, endpoint, bundleId, timeoutMs, pollIntervalMs,
                      startTime, now, statuses, nSend, nStatus, nInflight, seen>>

\* getBundleStatuses(bundleIds, endpoint) up to the await of axios.post
CallGetBundleStatuses ==
    /\ pc = "idle"
    /\ UNCHANGED nonRelayVars
    /\ \E ids \in SeqsUpTo(Handles, MaxIds), ep \in Hosts :
       /\ op' = "getBundleStatuses"
       /\ bundleIds' = ids
       /\ endpoint' = ep
       /\ req' = StatusRequest(ids, ep)
       /\ nStatus' = nStatus + 1
       /\ pc' = "status"
       /\ UNCHANGED <<transactions, bundleId, timeoutMs, pollIntervalMs, startTime, now,
                      statuses, result, nSend, nInflight, sendData, seen>>

GetBundleStatusesSettles ==
    /\ pc = "status"
    /\ UNCHANGED nonRelayVars
    /\ op = "getBundleStatuses"
    /\ \E data \in StatusAnswers(Len(bundleIds)) :
       /\ LET o == GetBundleStatusesOutcome(data) IN
          result' = IF o.throws
                    THEN [Pending EXCEPT !.state = "rejected", !.error = o.error]
                    ELSE [Pending EXCEPT !.state = "resolved", !.value = o.value]
       /\ sendData' = data
       /\ req' = NoReq
       /\ pc' = "done"
       /\ UNCHANGED <<op, transactions, bundleIds, endpoint, bundleId, timeoutMs,
                      pollIntervalMs, startTime, now, statuses, nSend, nStatus,
                      nInflight, seen>>

\* getBundleInflightStatuses(bundleIds, endpoint) up to the await of axios.post
CallGetBundleInflightStatuses ==
    /\ pc = "idle"
    /\ UNCHANGED nonRelayVars
    /\ \E ids \in SeqsUpTo(Handles, MaxIds), ep \in Hosts :
       /\ op' = "getBundleInflightStatuses"
       /\ bundleIds' = ids
       /\ endpoint' = ep
       /\ req' = InflightRequest(ids, ep)
       /\ nInflight' = nInflight + 1
       /\ pc' = "inflight"
       /\ UNCHANGED <<transactions, bundleId, timeoutMs, pollIntervalMs, startTime, now,
                      statuses, result, nSend, nStatus, sendData, seen>>

GetBundleInflightStatusesSettles ==
    /\ pc = "inflight"
    /\ UNCHANGED nonRelayVars
    /\ op = "getBundleInflightStatuses"
    /\ \E data \in StatusAnswers(Len(bundleIds)) :
       /\ LET o == GetBundleInflightStatusesOutcome(data) IN
          result' = IF o.throws
                    THEN [Pending EXCEPT !.state = "rejected", !.error = o.error]
                    ELSE [Pending EXCEPT !.state = "resolved", !.value = o.value]
       /\ sendData' = data
       /\ req' = NoReq
       /\ pc' = "done"
       /\ UNCHANGED <<op, transactions, bundleIds, endpoint, bundleId, timeoutMs,
                      pollIntervalMs, startTime, now, statuses, nSend, nStatus,
                      nInflight, seen>>

-----------------------------------------------------------------------------
(* waitForBundleConfirmation: one action per stretch between two awaits *)

Polling == op \in {"waitForBundleConfirmation", "submitAndConfirmBundle"}

\* waitForBundleConfirmation(bundleId, endpoint, timeoutMs, pollIntervalMs):
\* const startTime = Date.now()
CallWaitForBundleConfirmation ==
    /\ pc = "idle"
    /\ UNCHANGED nonRelayVars
    /\ \E id \in Handles, ep \in Hosts, budget \in TimeoutChoices,
          interval \in PollChoices :
       /\ op' = "waitForBundleConfirmation"
       /\ bundleId' = id
       /\ endpoint' = ep
       /\ timeoutMs' = budget
       /\ pollIntervalMs' = interval
       /\ startTime' = now
       /\ pc' = "loop"
       /\ UNCHANGED <<transactions, bundleIds, now, statuses, req, result, nSend,
                      nStatus, nInflight, sendData, seen>>

\* the loop condition holds: a tick starts with getBundleStatuses([bundleId], endpoint)
\* (ticks are followed up to ClockHorizon, which only a default budget outlasts)
PollTick ==
    /\ pc = "loop"
    /\ UNCHANGED nonRelayVars
    /\ Polling
    /\ LoopCondition(now, startTime, timeoutMs)
    /\ now - startTime < ClockHorizon
    /\ statuses' = <<>>
    /\ req' = StatusRequest(<<bundleId>>, endpoint)
    /\ nStatus' = nStatus + 1
    /\ pc' = "status"
    /\ UNCHANGED <<op, transactions, bundleIds, endpoint, bundleId, timeoutMs,
                   pollIntervalMs, startTime, now, result, nSend, nInflight,
                   sendData, seen>>

\* the loop condition fails: return the timeout result
PollTimeout ==
    /\ pc = "loop"
    /\ UNCHANGED nonRelayVars
    /\ Polling
    /\ ~LoopCondition(now, startTime, timeoutMs)
    /\ result' = TimedOut(bundleId)
    /\ pc' = "done"
    /\ UNCHANGED <<op, transactions, bundleIds, endpoint, bundleId, timeoutMs,
                   pollIntervalMs, startTime, now, statuses, req, nSend, nStatus,
                   nInflight, sendData, seen>>

\* getBundleStatuses returns inside the try: statuses is set, the 1000 ms wait starts
StatusReturns ==
    /\ pc = "status"
    /\ UNCHANGED nonRelayVars
    /\ Polling
    /\ \E data \in StatusAnswers(1) :
       /\ ~GetBundleStatusesOutcome(data).throws
       /\ statuses' = GetBundleStatusesOutcome(data).value
       /\ seen' = seen \cup {StatusKind(GetBundleStatusesOutcome(data).value)}
       /\ req' = NoReq
       /\ pc' = "delay1"
       /\ UNCHANGED <<op, transactions, bundleIds, endpoint, bundleId, timeoutMs,
                      pollIntervalMs, startTime, now, result, nSend, nStatus,
                      nInflight, sendData>>

\* getBundleStatuses throws inside the try: the catch block runs
StatusThrows ==
    /\ pc = "status"
    /\ UNCHANGED nonRelayVars
    /\ Polling
    /\ \E data \in StatusAnswers(1) :
       /\ GetBundleStatusesOutcome(data).throws
       /\ LET d == CatchDecision(GetBundleStatusesOutcome(data).error, bundleId) IN
          /\ result' = IF d.state = "pending" THEN result ELSE d
          /\ pc' = AfterDecision(d)
       /\ seen' = seen \cup {"statusThrow"}
       /\ req' = NoReq
       /\ UNCHANGED <<op, transactions, bundleIds, endpoint, bundleId, timeoutMs,
                      pollIntervalMs, startTime, now, statuses, nSend, nStatus,
                      nInflight, sendData>>

\* the first 1000 ms wait ends: getBundleInflightStatuses([bundleId], endpoint)
StatusDelayEnds ==
    /\ pc = "delay1"
    /\ UNCHANGED nonRelayVars
    /\ now' = now + StatusDelayMs
    /\ req' = InflightRequest(<<bundleId>>, endpoint)
    /\ nInflight' = nInflight + 1
    /\ pc' = "inflight"
    /\ UNCHANGED <<op, transactions, bundleIds, endpoint, bundleId, timeoutMs,
                   pollIntervalMs, startTime, statuses, result, nSend, nStatus,
                   sendData, seen>>

\* getBundleInflightStatuses returns: its value is logged, the second wait starts
InflightReturns ==
    /\ pc = "inflight"
    /\ UNCHANGED nonRelayVars
    /\ Polling
    /\ \E data \in StatusAnswers(1) :
       /\ ~GetBundleInflightStatusesOutcome(data).throws
       /\ req' = NoReq
       /\ pc' = "delay2"
       /\ UNCHANGED <<op, transactions, bundleIds, endpoint, bundleId, timeoutMs,
                      pollIntervalMs, startTime, now, statuses, result, nSend,
                      nStatus, nInflight, sendData, seen>>

\* getBundleInflightStatuses throws inside the try: the catch block runs
InflightThrows ==
    /\ pc = "inflight"
    /\ UNCHANGED nonRelayVars
    /\ Polling
    /\ \E data \in StatusAnswers(1) :
       /\ GetBundleInflightStatusesOutcome(data).throws
       /\ LET d == CatchDecision(GetBundleInflightStatusesOutcome(data).error, bundleId) IN
          /\ result' = IF d.state = "pending" THEN result ELSE d
          /\ pc' = AfterDecision(d)
       /\ seen' = seen \cup {"inflightThrow"}
       /\ req' = NoReq
       /\ UNCHANGED <<op, transactions, bundleIds, endpoint, bundleId, timeoutMs,
                      pollIntervalMs, startTime, now, statuses, nSend, nStatus,
                      nInflight, sendData>>

\* the second 1000 ms wait ends: statuses[0] is examined
InflightDelayEnds ==
    /\ pc = "delay2"
    /\ UNCHANGED nonRelayVars
    /\ now' = now + InflightDelayMs
    /\ LET d == TickDecision(statuses, bundleId) IN
       /\ result' = IF d.state = "pending" THEN result ELSE d
       /\ pc' = AfterDecision(d)
    /\ seen' = seen \cup {"examined"}
    /\ UNCHANGED <<op, transactions, bundleIds, endpoint, bundleId, timeoutMs,
                   pollIntervalMs, startTime, statuses, req, nSend, nStatus,
                   nInflight, sendData>>

\* await new Promise((resolve) => setTimeout(resolve, pollIntervalMs))
PollWaitEnds ==
    /\ pc = "wait"
    /\ UNCHANGED nonRelayVars
    /\ now' = now + pollIntervalMs
    /\ pc' = "loop"
    /\ UNCHANGED <<op, transactions, bundleIds, endpoint, bundleId, timeoutMs,
                   pollIntervalMs, startTime, statuses, req, result, nSend,
                   nStatus, nInflight, sendData, seen>>

-----------------------------------------------------------------------------
(* submitAndConfirmBundle *)

\* submitAndConfirmBundle(transactions, timeoutMs) up to the await inside sendBundle
CallSubmitAndConfirmBundle ==
    /\ pc = "idle"
    /\ UNCHANGED nonRelayVars
    /\ \E txs \in SeqsUpTo(Txs, MaxTxs), budget \in TimeoutChoices :
       /\ op' = "submitAndConfirmBundle"
       /\ transactions' = txs
       /\ timeoutMs' = budget
       /\ endpoint' = SubmitEndpoint
       /\ req' = SendBundleRequest(txs, SubmitEndpoint)
       /\ nSend' = nSend + 1
       /\ pc' = "send"
       /\ UNCHANGED <<bundleIds, bundleId, pollIntervalMs, startTime, now, statuses,
                      result, nStatus, nInflight, sendData, seen>>

\* sendBundle threw: the catch block of submitAndConfirmBundle returns the failure
SubmitSendThrows ==
    /\ pc = "send"
    /\ UNCHANGED nonRelayVars
    /\ op = "submitAndConfirmBundle"
    /\ \E data \in SendBundleAnswers :
       /\ SendBundleOutcome(data).throws
       /\ result' = SubmitCatch(SendBundleOutcome(data).error)
       /\ sendData' = data
       /\ req' = NoReq
       /\ transactions' = <<>>
       /\ pc' = "done"
       /\ UNCHANGED <<op, bundleIds, endpoint, bundleId, timeoutMs, pollIntervalMs,
                      startTime, now, statuses, nSend, nStatus, nInflight, seen>>

\* sendBundle returned data.result: waitForBundleConfirmation(bundleId, <url>, timeoutMs)
\* starts with the default interval
SubmitSendReturns ==
    /\ pc = "send"
    /\ UNCHANGED nonRelayVars
    /\ op = "submitAndConfirmBundle"
    /\ \E data \in SendBundleAnswers :
       /\ ~SendBundleOutcome(data).throws
       /\ bundleId' = SendBundleOutcome(data).handle
       /\ LET params == WaitParams(Given(SubmitEndpoint), Given(timeoutMs), Omitted) IN
          /\ endpoint' = params.endpoint
          /\ timeoutMs' = params.timeoutMs
          /\ pollIntervalMs' = params.pollIntervalMs
       /\ startTime' = now
       /\ sendData' = data
       /\ req' = NoReq
       /\ transactions' = <<>>
       /\ pc' = "loop"
       /\ UNCHANGED <<op, bundleIds, now, statuses, result, nSend,
                      nStatus, nInflight, seen>>

\* submitAndConfirmBundle(transactions): the budget is left out
CallSubmitAndConfirmBundleDefault ==
    /\ pc = "idle"
    /\ UNCHANGED <<hookVars, tipVars, buildVars>>
    /\ \E txs \in SeqsUpTo(Txs, MaxTxs) :
       /\ omitted' = 1
       /\ op' = "submitAndConfirmBundle"
       /\ transactions' = txs
       /\ timeoutMs' = SubmitTimeoutMs(Omitted)
       /\ endpoint' = SubmitEndpoint
       /\ req' = SendBundleRequest(txs, SubmitEndpoint)
       /\ nSend' = nSend + 1
       /\ pc' = "send"
       /\ UNCHANGED <<bundleIds, bundleId, pollIntervalMs, startTime, now, statuses,
                      result, nStatus, nInflight, sendData, seen>>

\* waitForBundleConfirmation(bundleId), (bundleId, endpoint) or (bundleId,
\* endpoint, timeoutMs): the n first arguments are written, the others left out
CallWaitForBundleConfirmationDefaults ==
    /\ pc = "idle"
    /\ UNCHANGED <<hookVars, tipVars, buildVars>>
    /\ \E id \in Handles, ep \in Hosts, budget \in TimeoutChoices, n \in 1..3 :
       LET params == WaitParams(IF n >= 2 THEN Given(ep) ELSE Omitted,
                                IF n >= 3 THEN Given(budget) ELSE Omitted,
                                Omitted)
       IN
       /\ omitted' = 4 - n
       /\ op' = "waitForBundleConfirmation"
       /\ bundleId' = id
       /\ endpoint' = params.endpoint
       /\ timeoutMs' = params.timeoutMs
       /\ pollIntervalMs' = params.pollIntervalMs
       /\ startTime' = now
       /\ pc' = "loop"
       /\ UNCHANGED <<transactions, bundleIds, now, statuses, req, result, nSend,
                      nStatus, nInflight, sendData, seen>>

-----------------------------------------------------------------------------
Next ==
    \/ CallSendBundle
    \/ SendBundleSettles
    \/ CallGetBundleStatuses
    \/ GetBundleStatusesSettles
    \/ CallGetBundleInflightStatuses
    \/ GetBundleInflightStatusesSettles
    \/ CallWaitForBundleConfirmation
    \/ PollTick
    \/ PollTimeout
    \/ StatusReturns
    \/ StatusThrows
    \/ StatusDelayEnds
    \/ InflightReturns
    \/ InflightThrows
    \/ InflightDelayEnds
    \/ PollWaitEnds
    \/ CallSubmitAndConfirmBundle
    \/ SubmitSendThrows
    \/ SubmitSendReturns

Spec == Init /\ [][Next]_vars

\* every request the polling loop awaits returns or fails, every timer it
\* awaits fires, and the code between two awaits runs
PollingProgress ==
    /\ WF_vars(PollTick) /\ WF_vars(PollTimeout)
    /\ WF_vars(StatusReturns \/ StatusThrows)
    /\ WF_vars(InflightReturns \/ InflightThrows)
    /\ WF_vars(StatusDelayEnds) /\ WF_vars(InflightDelayEnds)
    /\ WF_vars(PollWaitEnds)

SpecLive == Init /\ [][Next]_vars /\ PollingProgress

\* the calls above, and the calls that rely on default parameters
NextDefaults ==
    \/ Next
    \/ CallSubmitAndConfirmBundleDefault
    \/ CallWaitForBundleConfirmationDefaults

SpecDefaults == Init /\ [][NextDefaults]_vars

-----------------------------------------------------------------------------
(* Properties *)

\* the polling loop of waitForBundleConfirmation has been entered
Waited ==
    \/ op = "waitForBundleConfirmation"
    \/ op = "submitAndConfirmBundle" /\ pc # "send" /\ ~SendBundleOutcome(sendData).throws

Elapsed == now - startTime

\* the tick that produced statuses is over (or the call is)
TickOver == pc \in {"wait", "loop", "done"}

\* C1: on a tick whose getBundleStatuses value has a first record with
\* confirmation_status 'confirmed' or 'finalized', the call ends on that tick
\* with { bundleId, success: true }, whatever the inflight query does.
C1_ConfirmedTickLands ==
    (Waited /\ TickOver /\ FirstStatus(statuses).present
        /\ FirstStatus(statuses).confirmation_status \in {"confirmed", "finalized"})
    => (pc = "done" /\ result = Landed(bundleId))

\* C2: a status record with a non-null err, whatever its confirmation_status,
\* makes the call return success = false with error = JSON.stringify(err).
C2_ErrRecordFails ==
    (Waited /\ TickOver /\ FirstStatus(statuses).present
        /\ FirstStatus(statuses).err # "null")
    => (pc = "done"
        /\ result = Failed(bundleId, JSONStringify(FirstStatus(statuses).err)))

\* C3: when no poll of the call returned a record that is confirmed/finalized
\* or carries err, the call resolves with { success: false, error: 'Bundle
\* confirmation timeout' }, which no on-chain failure result equals.
C3_QuietPollsTimeOut ==
    (Waited /\ pc = "done" /\ "terminal" \notin seen)
    => /\ result = TimedOut(bundleId)
       /\ ~result.success
       /\ \A e \in ErrVals : result # Failed(bundleId, JSONStringify(e))

C3_Witness ==
    /\ Waited /\ pc = "done" /\ "terminal" \notin seen
    /\ {"absent", "quiet"} \subseteq seen
    /\ nStatus >= 2
    /\ result = TimedOut(bundleId)

\* C4 as claimed: the call resolves no later than timeoutMs + pollIntervalMs
\* after it was called.
C4_WithinBudgetPlusInterval ==
    (Waited /\ pc = "done") => Elapsed <= timeoutMs + pollIntervalMs

\* C4 amended: the call resolves less than timeoutMs + pollIntervalMs + 2000 ms
\* after it was called (the two fixed 1000 ms waits of the last tick added).
C4_WithinBudgetPlusTick ==
    (Waited /\ pc = "done")
    => Elapsed < timeoutMs + pollIntervalMs + StatusDelayMs + InflightDelayMs

C4_Witness ==
    /\ Waited /\ pc = "done"
    /\ Elapsed > timeoutMs + pollIntervalMs
    /\ result = TimedOut(bundleId)

QueryErrors ==
    {<<"Network Error">>}
        \cup {<<"getBundleStatuses failed: ", m>> : m \in RelayMsgs}
        \cup {<<"getInflightBundleStatuses failed: ", m>> : m \in RelayMsgs}

\* C5: a throwing status or inflight query never ends the call and never shows
\* in the result; when every tick of the call had a throwing query the call
\* uses its whole budget and resolves with 'Bundle confirmation timeout'.
C5_QueryErrorsSwallowed ==
    Waited =>
      /\ result.error \notin QueryErrors
      /\ (pc = "done" /\ "examined" \notin seen)
            => (result = TimedOut(bundleId) /\ Elapsed >= timeoutMs)

C5_Witness ==
    /\ Waited /\ pc = "done" /\ "examined" \notin seen
    /\ {"statusThrow", "inflightThrow"} \subseteq seen
    /\ result = TimedOut(bundleId)

Outcomes(id) ==
    {Landed(id), TimedOut(id)} \cup {Failed(id, JSONStringify(e)) : e \in ErrVals}

\* C6: a call of waitForBundleConfirmation produces one outcome, Landed, Failed
\* or TimedOut; once it is produced it never changes and no further status or
\* inflight-status request is issued.
C6_OneOutcome ==
    /\ [](Waited => /\ result.state = "pending" <=> pc # "done"
                    /\ result.state # "pending" => result \in Outcomes(bundleId))
    /\ [][(Waited /\ result.state # "pending")
            => (result' = result /\ nStatus' = nStatus /\ nInflight' = nInflight
                /\ req' = req)]_vars

C6_Witness ==
    /\ op = "waitForBundleConfirmation" /\ pc = "done"
    /\ result = Landed(bundleId)
    /\ nStatus >= 2 /\ nInflight >= 1

\* C7: when the relay answers sendBundle with an error envelope,
\* submitAndConfirmBundle resolves with { bundleId: '', success: false, error:
\* 'sendBundle failed: <message>' } and issues no status or inflight request.
C7_RelayRejection ==
    (op = "submitAndConfirmBundle" /\ sendData.kind = "error")
    => /\ pc = "done"
       /\ result = Failed("", <<"sendBundle failed: ", sendData.msg>>)
       /\ nStatus = 0 /\ nInflight = 0

C7_Witness ==
    /\ op = "submitAndConfirmBundle" /\ sendData = ErrorEnvelope("m2")
    /\ pc = "done" /\ result.bundleId = "" /\ ~result.success

\* C8: the one sendBundle request of a call carries a transaction array of the
\* length of the input list whose i-th entry is the base64 serialization of the
\* i-th input transaction.
C8_PayloadInOrder ==
    /\ nSend <= 1
    /\ pc = "send" =>
         /\ nSend = 1
         /\ req.method = "sendBundle"
         /\ Len(req.txs) = Len(transactions)
         /\ \A i \in 1..Len(transactions) :
               req.txs[i] = EncodeTransaction(transactions[i])

C8_Witness ==
    /\ pc = "send" /\ Len(transactions) = 3
    /\ transactions[1] # transactions[3]
    /\ req.txs[1].bytes = transactions[1] /\ req.txs[3].bytes = transactions[3]

\* C9: every sendBundle request holds between 1 and 5 transactions (a call with
\* an empty list or more than 5 fails before any request is made).
C9_BundleSizeChecked ==
    req.method = "sendBundle" => (Len(req.txs) >= 1 /\ Len(req.txs) <= 5)

\* C10: every request goes to the endpoint argument of the function making it.
C10_RequestGoesToEndpoint ==
    req.method # "none" => req.host = endpoint

\* C21: a call of submitAndConfirmBundle issues one sendBundle request, for
\* every outcome: the request is made when the call starts, and no later step
\* of the call, whatever the result, makes another.
C21_OneSendPerSubmit ==
    /\ [](op = "submitAndConfirmBundle" => nSend = 1)
    /\ [][op = "submitAndConfirmBundle"
            => /\ nSend' = nSend
               /\ pc' # "send"
               /\ req'.method # "sendBundle"]_vars

C21_Witness ==
    /\ op = "submitAndConfirmBundle" /\ pc = "done"
    /\ result \in {Failed(bundleId, JSONStringify(e)) : e \in ErrVals \ {"null"}}
    /\ nSend = 1 /\ nStatus >= 2

\* C22: in a call of submitAndConfirmBundle every status and inflight-status
\* query is issued after the relay answered sendBundle with a handle and asks
\* for exactly that handle, the result of the polling carries it, and the
\* polling is entered only with a defined, non-empty handle.
C22_PollsRelayHandle ==
    (op = "submitAndConfirmBundle" /\ Waited)
    => /\ sendData.kind = "result"
       /\ bundleId = sendData.handle
       /\ bundleId \in Handles
       /\ req.method # "none" => req.ids = <<sendData.handle>>
       /\ pc = "done" => result.bundleId = sendData.handle

\* C23: every tick of waitForBundleConfirmation issues both the status query
\* and the inflight-status query for the polled handle, the ticks whose status
\* query fails included: between ticks as many of one as of the other were made.
C23_BothQueriesEachTick ==
    /\ (Waited /\ TickOver) => nInflight = nStatus
    /\ (Waited /\ req.method # "none") => req.ids = <<bundleId>>

\* the relay answered the direct status query with no error, and its value,
\* when there is one, has a slot for every handle asked for
AnsweredWithoutError ==
    /\ op \in {"getBundleStatuses", "getBundleInflightStatuses"} /\ pc = "done"
    /\ \/ sendData.kind = "noresult"
       \/ sendData.kind = "result" /\ Len(sendData.value) = Len(bundleIds)

\* C24: getBundleStatuses and getBundleInflightStatuses return a list with one
\* slot per input handle for every relay response that is not an error, a
\* response without a result value included.
C24_OneSlotPerHandle ==
    AnsweredWithoutError
    => (result.state = "resolved" /\ Len(result.value) = Len(bundleIds))

\* C26: submitAndConfirmBundle hands its timeoutMs, 600000 when the caller
\* left it out, to waitForBundleConfirmation unchanged; a bare
\* waitForBundleConfirmation(bundleId) has the budget 60000 and the interval 2000.
C26_DefaultBudgets ==
    /\ [](op = "submitAndConfirmBundle" =>
            /\ omitted = 1 => timeoutMs = 600000
            /\ Waited => pollIntervalMs = 2000)
    /\ [][op = "submitAndConfirmBundle" => timeoutMs' = timeoutMs]_vars
    /\ [](op = "waitForBundleConfirmation" =>
            /\ omitted >= 2 => timeoutMs = 60000
            /\ omitted >= 1 => pollIntervalMs = 2000)

C26_Witness ==
    /\ op = "submitAndConfirmBundle" /\ omitted = 1
    /\ Waited /\ nStatus >= 2 /\ timeoutMs = 600000

\* C28: when every request returns or fails, every timer fires and time
\* advances, a waitForBundleConfirmation that was entered settles.
C28_WaitTerminates ==
    Waited ~> (pc = "done" /\ result.state = "resolved")

C28_Witness ==
    /\ op = "waitForBundleConfirmation" /\ pc = "done"
    /\ result = TimedOut(bundleId)
    /\ {"statusThrow", "inflightThrow", "examined"} \subseteq seen
    /\ Elapsed >= timeoutMs /\ timeoutMs >= 4000

\* C29: submitAndConfirmBundle never rejects; whenever it settles without
\* success its result has success = false and an error that is not empty; its
\* result has success = true only when the status list returned for the handle
\* sendBundle resolved with starts with a confirmed or finalized record.
C29_SubmitNeverRejects ==
    op = "submitAndConfirmBundle" =>
        /\ result.state # "rejected"
        /\ pc = "done" => result.state = "resolved"
        /\ (pc = "done" /\ ~result.success) => result.error # <<>>
        /\ result.success =>
              /\ ~SendBundleOutcome(sendData).throws
              /\ result.bundleId = SendBundleOutcome(sendData).handle
              /\ FirstStatus(statuses).present
              /\ FirstStatus(statuses).confirmation_status \in {"confirmed", "finalized"}

C29_Witness ==
    /\ op = "submitAndConfirmBundle" /\ pc = "done"
    /\ result = Landed(sendData.handle) /\ sendData.handle \in Handles
    /\ "statusThrow" \in seen /\ nStatus >= 2

-----------------------------------------------------------------------------
(* The builder hooks: useDriftShort, useJupiterSwap, useTokenTransfer       *)

DriftFns == {"buildShort", "buildDeposit"}

\* the hook a builder function belongs to
HookOf(fn) ==
    CASE fn \in DriftFns -> "useDriftShort"
      [] fn = "buildSwap" -> "useJupiterSwap"
      [] OTHER -> "useTokenTransfer"

\* useWallet(): each of the three members is present or missing
Wallets == [publicKey : BOOLEAN, signTransaction : BOOLEAN, signAllTransactions : BOOLEAN]

WalletNotConnected == "Wallet not connected"
\* error.message of what the awaited calls throw
InitErrors == {"subscribe failed"}
BuildErrors == {"build failed"}
UnsubscribeErrors == {"unsubscribe failed"}

\* a guard that looks at publicKey alone in every hook
WalletReadyPublicKeyOnly(fn, w) == w.publicKey

\* the negation of the guard at the head of each builder function
WalletReady(fn, w) ==
    IF fn \in DriftFns
    THEN w.publicKey /\ w.signTransaction /\ w.signAllTransactions
    ELSE w.publicKey

\* a catch block that cleans nothing up
CatchCleanupTargetNone(ref) == 0

\* catch block of buildShort / buildDeposit: the client it cleans up (0: none)
CatchCleanupTarget(ref) == ref

\* a DriftClient as initializeDriftClient returns it
NewClient == [subscribed |-> TRUE, cleanedBy |-> {}]

\* cleanupDriftClient(t) called by a call whose own client is own:
\* t.unsubscribe() is invoked
CleanupCalled(cl, own, t) ==
    [cl EXCEPT ![t].cleanedBy = @ \cup {IF own = t THEN "creator" ELSE "other"}]

\* the unsubscribe() of client t resolves
Unsubscribed(cl, t) == [cl EXCEPT ![t].subscribed = FALSE]

\* the call slot c is free: never used, or its promise has settled
Free(c) == call[c].pc \in {"idle", "returned"}

\* the slot a new call takes: the lowest free one
FirstFree(c) == Free(c) /\ \A d \in Calls : Free(d) => c <= d

\* calls of different hooks share no variable, so every interleaving of them
\* equals one that runs them one after another: a call starts next to a
\* running one only when both belong to the same hook
SameHookRunning(fn) == \A d \in Calls : ~Free(d) => HookOf(call[d].fn) = HookOf(fn)

\* the transaction object the builder called by call c constructs
TxOf(c) == IF c = 1 THEN "t1" ELSE "t2"

\* the expectedOutput next to that transaction in what
\* buildJupiterSwapTransaction resolves with: a number, one per call
ExpectedOutputOf(c) == IF c = 1 THEN "out1" ELSE "out2"

\* a call whose promise has settled with r; its locals are gone
Returned(r) == [IdleCall EXCEPT !.pc = "returned", !.ret = r]

\* what the guard at the head of fn can find, over the wallets there are
GuardOutcomes(fn) == {WalletReady(fn, w) : w \in Wallets}

\* the head of a builder function, up to its first await; ready tells whether
\* the guard found the wallet connected
Enter(c, fn, ready) ==
    /\ IF ~ready
       THEN /\ hookState' = [hookState EXCEPT ![HookOf(fn)] = OpState("error", "", WalletNotConnected)]
            /\ call' = [call EXCEPT ![c] = Returned("null")]
       ELSE /\ hookState' = [hookState EXCEPT ![HookOf(fn)] = OpState("loading", "", "")]
            /\ call' = [call EXCEPT ![c] = [IdleCall EXCEPT !.fn = fn,
                           !.pc = IF fn \in DriftFns THEN "init" ELSE "build"]]
    /\ UNCHANGED <<expectedOutput, driftClientRef, clients>>
    /\ UNCHANGED nonHookVars

CallBuildShort ==
    \E c \in Calls :
        /\ FirstFree(c)
        /\ SameHookRunning("buildShort")
        /\ \E ready \in GuardOutcomes("buildShort") : Enter(c, "buildShort", ready)

CallBuildDeposit ==
    \E c \in Calls :
        /\ FirstFree(c)
        /\ SameHookRunning("buildDeposit")
        /\ \E ready \in GuardOutcomes("buildDeposit") : Enter(c, "buildDeposit", ready)

CallBuildSwap ==
    \E c \in Calls :
        /\ FirstFree(c)
        /\ SameHookRunning("buildSwap")
        /\ \E ready \in GuardOutcomes("buildSwap") : Enter(c, "buildSwap", ready)

CallBuildTransfer ==
    \E c \in Calls :
        /\ FirstFree(c)
        /\ SameHookRunning("buildTransfer")
        /\ \E ready \in GuardOutcomes("buildTransfer") : Enter(c, "buildTransfer", ready)

\* the catch block of buildShort / buildDeposit, entered by call c with error msg
DriftCatch(c, msg) ==
    LET t == CatchCleanupTarget(driftClientRef) IN
    IF t # 0
    THEN /\ call' = [call EXCEPT ![c].pc = "catchCleanup", ![c].target = t, ![c].error = msg]
         /\ clients' = CleanupCalled(clients, call[c].driftClient, t)
         /\ UNCHANGED hookState
    ELSE /\ call' = [call EXCEPT ![c] = Returned("null")]
         /\ hookState' = [hookState EXCEPT !["useDriftShort"] = OpState("error", "", msg)]
         /\ UNCHANGED clients

\* initializeDriftClient resolves: driftClientRef.current = driftClient, then
\* the transaction builder is called
InitReturns ==
    \E c \in Calls :
        /\ call[c].pc = "init"
        /\ Len(clients) < MaxClients
        /\ clients' = Append(clients, NewClient)
        /\ driftClientRef' = Len(clients) + 1
        /\ call' = [call EXCEPT ![c].pc = "build", ![c].driftClient = Len(clients) + 1]
        /\ UNCHANGED <<hookState, expectedOutput>>
        /\ UNCHANGED nonHookVars

\* initializeDriftClient rejects
InitThrows ==
    \E c \in Calls, msg \in InitErrors :
        /\ call[c].pc = "init"
        /\ DriftCatch(c, msg)
        /\ UNCHANGED <<expectedOutput, driftClientRef>>
        /\ UNCHANGED nonHookVars

\* buildDriftShortTransaction / buildDriftDepositTransaction resolves:
\* cleanupDriftClient(driftClient) is called
DriftBuildReturns ==
    \E c \in Calls :
        /\ call[c].pc = "build"
        /\ call[c].fn \in DriftFns
        /\ call' = [call EXCEPT ![c].pc = "cleanup", ![c].transaction = TxOf(c),
                                ![c].target = call[c].driftClient]
        /\ clients' = CleanupCalled(clients, call[c].driftClient, call[c].driftClient)
        /\ UNCHANGED <<hookState, expectedOutput, driftClientRef>>
        /\ UNCHANGED nonHookVars

\* buildDriftShortTransaction / buildDriftDepositTransaction rejects
DriftBuildThrows ==
    \E c \in Calls, msg \in BuildErrors :
        /\ call[c].pc = "build"
        /\ call[c].fn \in DriftFns
        /\ DriftCatch(c, msg)
        /\ UNCHANGED <<expectedOutput, driftClientRef>>
        /\ UNCHANGED nonHookVars

\* the cleanup of the try block resolves: the ref is cleared, success is set
CleanupReturns ==
    \E c \in Calls :
        /\ call[c].pc = "cleanup"
        /\ clients' = Unsubscribed(clients, call[c].target)
        /\ driftClientRef' = 0
        /\ hookState' = [hookState EXCEPT !["useDriftShort"] =
                             OpState("success", call[c].transaction, "")]
        /\ call' = [call EXCEPT ![c] = Returned(call[c].transaction)]
        /\ UNCHANGED expectedOutput
        /\ UNCHANGED nonHookVars

\* the cleanup of the try block rejects: the catch block runs
CleanupThrows ==
    \E c \in Calls, msg \in UnsubscribeErrors :
        /\ call[c].pc = "cleanup"
        /\ DriftCatch(c, msg)
        /\ UNCHANGED <<expectedOutput, driftClientRef>>
        /\ UNCHANGED nonHookVars

\* the cleanup of the catch block resolves: the ref is cleared, the error is set
CatchCleanupReturns ==
    \E c \in Calls :
        /\ call[c].pc = "catchCleanup"
        /\ clients' = Unsubscribed(clients, call[c].target)
        /\ driftClientRef' = 0
        /\ hookState' = [hookState EXCEPT !["useDriftShort"] = OpState("error", "", call[c].error)]
        /\ call' = [call EXCEPT ![c] = Returned("null")]
        /\ UNCHANGED expectedOutput
        /\ UNCHANGED nonHookVars

\* the cleanup of the catch block rejects: nothing catches it, the promise of
\* the call rejects
CatchCleanupThrows ==
    \E c \in Calls, msg \in UnsubscribeErrors :
        /\ call[c].pc = "catchCleanup"
        /\ call' = [call EXCEPT ![c] = Returned("rejected")]
        /\ UNCHANGED <<hookState, expectedOutput, driftClientRef, clients>>
        /\ UNCHANGED nonHookVars

\* buildJupiterSwapTransaction / buildTokenTransferTransaction resolves
BuilderReturns ==
    \E c \in Calls :
        /\ call[c].pc = "build"
        /\ call[c].fn \notin DriftFns
        /\ hookState' = [hookState EXCEPT ![HookOf(call[c].fn)] = OpState("success", TxOf(c), "")]
        /\ call' = [call EXCEPT ![c] = Returned(TxOf(c))]
        /\ UNCHANGED <<expectedOutput, driftClientRef, clients>>
        /\ UNCHANGED nonHookVars

\* buildJupiterSwapTransaction / buildTokenTransferTransaction rejects
BuilderThrows ==
    \E c \in Calls, msg \in BuildErrors :
        /\ call[c].pc = "build"
        /\ call[c].fn \notin DriftFns
        /\ hookState' = [hookState EXCEPT ![HookOf(call[c].fn)] = OpState("error", "", msg)]
        /\ call' = [call EXCEPT ![c] = Returned("null")]
        /\ UNCHANGED <<expectedOutput, driftClientRef, clients>>
        /\ UNCHANGED nonHookVars

NextHooks ==
    \/ CallBuildShort
    \/ CallBuildDeposit
    \/ CallBuildSwap
    \/ CallBuildTransfer
    \/ InitReturns
    \/ InitThrows
    \/ DriftBuildReturns
    \/ DriftBuildThrows
    \/ CleanupReturns
    \/ CleanupThrows
    \/ CatchCleanupReturns
    \/ CatchCleanupThrows
    \/ BuilderReturns
    \/ BuilderThrows

SpecHooks == Init /\ [][NextHooks]_vars

\* no call is between its head and its return
NoCallRunning == \A c \in Calls : Free(c)

SeqCallBuildShort == NoCallRunning /\ CallBuildShort

SeqCallBuildDeposit == NoCallRunning /\ CallBuildDeposit

SeqCallBuildSwap == NoCallRunning /\ CallBuildSwap

SeqCallBuildTransfer == NoCallRunning /\ CallBuildTransfer

NextHooksSeq ==
    \/ SeqCallBuildShort
    \/ SeqCallBuildDeposit
    \/ SeqCallBuildSwap
    \/ SeqCallBuildTransfer
    \/ InitReturns
    \/ InitThrows
    \/ DriftBuildReturns
    \/ DriftBuildThrows
    \/ CleanupReturns
    \/ CleanupThrows
    \/ CatchCleanupReturns
    \/ CatchCleanupThrows
    \/ BuilderReturns
    \/ BuilderThrows

SpecHooksSeq == Init /\ [][NextHooksSeq]_vars

\* reset() of hook h: setState({ status: 'idle' }); useJupiterSwap also sets
\* quote and expectedOutput to null. It runs whenever the component calls it,
\* also between two awaits of a build call.
Reset ==
    \E h \in Hooks :
        /\ hookState' = [hookState EXCEPT ![h] = IdleState]
        /\ expectedOutput' = IF h = "useJupiterSwap" THEN "null" ELSE expectedOutput
        /\ UNCHANGED <<call, driftClientRef, clients>>
        /\ UNCHANGED nonHookVars

\* one build call at a time, and reset() at any moment
NextHooksReset ==
    \/ NextHooksSeq
    \/ Reset

SpecHooksReset == Init /\ [][NextHooksReset]_vars

-----------------------------------------------------------------------------
(* Properties of the builder hooks *)

\* the step settles the promise of the call in slot c
Settles(c) == call'[c].pc = "returned" /\ call'[c] # call[c]

\* the hooks the call that settles in slot c may belong to: the hook of its
\* function, or any hook when it entered and left in one step
SettlingHooks(c) == IF Free(c) THEN Hooks ELSE {HookOf(call[c].fn)}

C12_OnlyOwnClientReleased ==
    /\ [](\A k \in 1..Len(clients) : "other" \notin clients[k].cleanedBy)
    /\ [][\A c \in Calls :
             (Settles(c) /\ call[c].driftClient # 0) =>
                 "creator" \in clients'[call[c].driftClient].cleanedBy]_vars

\* the wallet lacks what the guard of fn asks for
NoSigner(fn, w) ==
    \/ ~w.publicKey
    \/ fn \in DriftFns /\ (~w.signTransaction \/ ~w.signAllTransactions)

\* what the guard at the head of fn finds for the wallets that lack a signer
NoSignerOutcomes(fn) == {WalletReady(fn, w) : w \in {v \in Wallets : NoSigner(fn, v)}}

\* C19: a builder function called with a wallet that has no publicKey (for
\* buildShort and buildDeposit also: no signTransaction or no
\* signAllTransactions) settles in that very step: it returns null, the state
\* of its hook is error 'Wallet not connected', and neither the builder nor
\* initializeDriftClient has been called
C19_NoSignerFailsAtOnce ==
    [][\A c \in Calls, fn \in {"buildShort", "buildDeposit", "buildSwap", "buildTransfer"} :
          \A ready \in NoSignerOutcomes(fn) :
          (FirstFree(c) /\ Enter(c, fn, ready)) =>
              /\ call'[c].pc = "returned"
              /\ call'[c].ret = "null"
              /\ hookState'[HookOf(fn)] = OpState("error", "", WalletNotConnected)]_vars

\* each of the three hooks has refused a call for want of a signer, and no call
\* is running
C19_Witness ==
    /\ \A h \in Hooks : hookState[h] = OpState("error", "", WalletNotConnected)
    /\ call[1].pc = "returned" /\ call[1].ret = "null"
    /\ NoCallRunning

\* C20: a builder-hook call never rejects, and in the step in which it settles
\* the state of its hook is success with the returned transaction, or error
\* with a message next to a null return value
C20_SingleTerminalState ==
    [][\A c \in Calls :
          Settles(c) =>
              /\ call'[c].ret # "rejected"
              /\ \E h \in SettlingHooks(c) :
                     \/ /\ call'[c].ret = "null"
                        /\ hookState'[h].status = "error"
                        /\ hookState'[h].error # ""
                     \/ /\ call'[c].ret \in Txs
                        /\ hookState'[h] = OpState("success", call'[c].ret, "")]_vars

\* C25: when buildSwap has succeeded, the expectedOutput of useJupiterSwap is
\* not null and is the expectedOutput that buildJupiterSwapTransaction resolved
\* with next to the transaction the hook holds.
C25_ExpectedOutputStored ==
    \A c \in Calls :
        hookState["useJupiterSwap"] = OpState("success", TxOf(c), "")
        => (expectedOutput # "null" /\ expectedOutput = ExpectedOutputOf(c))

\* C27: driftClientRef.current is null whenever no buildShort or buildDeposit
\* call is in flight, so after every sequence of completed calls.
C27_NoClientHeldAtRest ==
    (\A c \in Calls : Free(c) \/ call[c].fn \notin DriftFns) => driftClientRef = 0

\* C30: after reset() the state of the hook is idle and stays idle until the
\* next build call starts: a step that moves the state of a hook away from idle
\* is taken when no call is in flight (it is the start of a call), never by a
\* call that was in flight when reset() ran.
C30_ResetHoldsUntilNextCall ==
    [][\A h \in Hooks :
          (hookState[h].status = "idle" /\ hookState'[h].status # "idle")
          => NoCallRunning]_vars

-----------------------------------------------------------------------------
(* createTipTransaction, getRandomTipAccount, getTipAccounts *)

\* Math.random() gives k / RandomDenominator for a k of RandomNumerators
RandomDenominator == 2 * MaxAccounts
RandomNumerators == 0..(RandomDenominator - 1)

\* a selection that never reaches the last address
RandomIndexShort(k, len) == (k * (len - 1)) \div RandomDenominator

\* Math.floor(Math.random() * addresses.length)
RandomIndex(k, len) == (k * len) \div RandomDenominator

\* getTipAccounts: what the awaited call gives
GetTipAccountsOutcome(data) ==
    CASE data.kind = "netfail" -> Throws(<<"fetch failed">>)
      [] data.kind = "error" -> Throws(<<"getTipAccounts failed: ", data.msg>>)
      [] data.kind = "list" -> ReturnsValue(data.value)
      [] OTHER -> ReturnsHandle("undefined")

\* getRandomTipAccount after getTipAccounts gave acc, with Math.random() = k/den:
\* addresses.length of undefined throws, new PublicKey(undefined) throws
SelectTipAccount(acc, k) ==
    CASE acc.throws -> acc
      [] acc.handle = "undefined" -> Throws(<<"TypeError">>)
      [] Len(acc.value) = 0 -> Throws(<<"Invalid public key input">>)
      [] OTHER -> ReturnsHandle(acc.value[RandomIndex(k, Len(acc.value)) + 1])

\* tipLamports: number = DEFAULT_TIP_LAMPORTS
TipLamports(arg) == IF arg.given THEN arg.n ELSE DEFAULT_TIP_LAMPORTS

\* SystemProgram.transfer({ fromPubkey, toPubkey, lamports })
Transfer(from, to, lamports) ==
    [program |-> "System.transfer", fromPubkey |-> from, toPubkey |-> to, lamports |-> lamports]

\* a tip that is always the default amount
TipTransactionDefaultAmount(payer, account, lamports, blockhash) ==
    [payerKey |-> payer, recentBlockhash |-> blockhash,
     instructions |-> <<Transfer(payer, account, DEFAULT_TIP_LAMPORTS)>>]

\* createTipTransaction: the message it compiles
TipTransaction(payer, account, lamports, blockhash) ==
    [payerKey |-> payer, recentBlockhash |-> blockhash,
     instructions |-> <<Transfer(payer, account, lamports)>>]

\* a selection failure answered with a fixed account
AfterSelectionFallback(sel) == IF sel.throws THEN ReturnsHandle("a1") ELSE sel

\* createTipTransaction: a rejection of getRandomTipAccount is not caught
AfterSelection(sel) == sel

CallCreateTipTransaction ==
    /\ tip.pc \in {"idle", "done"}
    /\ \E payer \in Payers, arg \in TipArgs :
           tip' = [IdleTip EXCEPT !.pc = "fetch", !.op = "createTipTransaction",
                                  !.payer = payer, !.arg = arg]
    /\ UNCHANGED tipHistory
    /\ UNCHANGED nonTipVars

CallGetRandomTipAccount ==
    /\ tip.pc \in {"idle", "done"}
    /\ tip' = [IdleTip EXCEPT !.pc = "fetch", !.op = "getRandomTipAccount"]
    /\ UNCHANGED tipHistory
    /\ UNCHANGED nonTipVars

\* getTipAccounts: the request settles; an error makes getRandomTipAccount and
\* with it the whole call reject, otherwise the 1000 ms wait starts
TipAccountsSettles ==
    /\ tip.pc = "fetch"
    /\ \E data \in TipAccountsAnswers :
           LET acc == GetTipAccountsOutcome(data)
               sel == AfterSelection(acc) IN
           tip' = CASE ~acc.throws -> [tip EXCEPT !.pc = "delay", !.data = data]
                    [] sel.throws -> [tip EXCEPT !.pc = "done", !.data = data,
                                                 !.out = "rejected"]
                    [] OTHER -> [tip EXCEPT !.pc = "blockhash", !.data = data,
                                            !.account = sel.handle]
    /\ UNCHANGED tipHistory
    /\ UNCHANGED nonTipVars

\* getTipAccounts returns after its wait; getRandomTipAccount selects
TipAccountSelected ==
    /\ tip.pc = "delay"
    /\ \E k \in RandomNumerators :
           LET sel == AfterSelection(SelectTipAccount(GetTipAccountsOutcome(tip.data), k)) IN
           IF sel.throws
           THEN /\ tip' = [tip EXCEPT !.pc = "done", !.out = "rejected"]
                /\ UNCHANGED tipHistory
           ELSE /\ tip' = IF tip.op = "getRandomTipAccount"
                          THEN [tip EXCEPT !.pc = "done", !.account = sel.handle,
                                           !.out = "returned"]
                          ELSE [tip EXCEPT !.pc = "blockhash", !.account = sel.handle]
                /\ tipHistory' = tipHistory \cup {sel.handle}
    /\ UNCHANGED nonTipVars

\* connection.getLatestBlockhash resolves: the transaction is built and returned
TipBlockhashReturns ==
    /\ tip.pc = "blockhash"
    /\ \E h \in Blockhashes :
           tip' = [tip EXCEPT !.pc = "done", !.blockhash = h, !.out = "returned",
                              !.tx = TipTransaction(tip.payer, tip.account,
                                                    TipLamports(tip.arg), h)]
    /\ UNCHANGED tipHistory
    /\ UNCHANGED nonTipVars

\* connection.getLatestBlockhash rejects
TipBlockhashThrows ==
    /\ tip.pc = "blockhash"
    /\ tip' = [tip EXCEPT !.pc = "done", !.blockhash = "failed", !.out = "rejected"]
    /\ UNCHANGED tipHistory
    /\ UNCHANGED nonTipVars

NextTip ==
    \/ CallCreateTipTransaction
    \/ CallGetRandomTipAccount
    \/ TipAccountsSettles
    \/ TipAccountSelected
    \/ TipBlockhashReturns
    \/ TipBlockhashThrows

SpecTip == Init /\ [][NextTip]_vars

-----------------------------------------------------------------------------
(* Properties of createTipTransaction *)

\* createTipTransaction has returned a transaction
TipReturned ==
    tip.pc = "done" /\ tip.op = "createTipTransaction" /\ tip.out = "returned"

\* the members of the list getTipAccounts returned to this call
FetchedAccounts ==
    IF tip.data.kind = "list"
    THEN {tip.data.value[i] : i \in 1..Len(tip.data.value)}
    ELSE {}

C16_MinimumTipEnforced ==
    TipReturned => tip.tx.instructions[1].lamports >= MinTipLamports

C18_EveryAccountSelectable ==
    (tip.pc = "delay" /\ tip.data.kind = "list") =>
        \A a \in FetchedAccounts : ENABLED (TipAccountSelected /\ tip'.account = a)

\* the calls so far have only ever selected a1, and a call is about to select
\* from a list of three accounts
C18_Witness ==
    /\ tip.pc = "delay"
    /\ tipHistory = {"a1"}
    /\ tip.data = ListData(<<"a1", "a2", "a3">>)

-----------------------------------------------------------------------------
(* buildDriftShortInstructions, buildDriftShortTransaction,                 *)
(* buildDriftDepositTransaction                                             *)

\* depositAmount?: number as passed: omitted, NaN, or a number of USDC
DepositAmounts ==
    {[kind |-> "undefined", n |-> 0], [kind |-> "NaN", n |-> 0]}
        \cup {[kind |-> "number", n |-> n] : n \in {-5, 0, 10}}

\* what the SDK and the RPC node answer during one builder call: whether
\* getUser finds the user, how many instructions getInitializeUserAccountIxs
\* gives (-1: it rejects), and whether each later request succeeds
BuildEnvs ==
    [marketKnown : BOOLEAN, userExists : BOOLEAN, initIxs : -1..MaxInitIxs,
     depositIx : BOOLEAN, oracle : BOOLEAN, orderIx : BOOLEAN, blockhash : BOOLEAN]

InitIx(j) == [program |-> "Drift.initializeUser", n |-> j, flag |-> FALSE]
DepositIx(amount, userInitialized) ==
    [program |-> "Drift.deposit", n |-> amount, flag |-> userInitialized]
OrderIx == [program |-> "Drift.placePerpOrder", n |-> 0, flag |-> FALSE]
ComputeLimitIx(units) == [program |-> "ComputeBudget.setComputeUnitLimit", n |-> units, flag |-> FALSE]
ComputePriceIx(microLamports) ==
    [program |-> "ComputeBudget.setComputeUnitPrice", n |-> microLamports, flag |-> FALSE]

BuildThrows(e) == [throws |-> TRUE, error |-> e, instructions |-> <<>>, transactions |-> <<>>]
BuildReturnsIxs(ixs) == [throws |-> FALSE, error |-> "", instructions |-> ixs, transactions |-> <<>>]
BuildReturnsTx(tx) == [throws |-> FALSE, error |-> "", instructions |-> <<>>, transactions |-> <<tx>>]

\* the truthiness of a number in JavaScript: undefined, NaN and 0 are falsy
TruthyNumber(d) == d.kind = "number" /\ d.n # 0

\* a deposit for every truthy depositAmount
DepositWantedTruthy(d) == TruthyNumber(d)

\* if (depositAmount && depositAmount > 0)
DepositWanted(d) == TruthyNumber(d) /\ d.n > 0

\* the deposit pushed after the order
DepositAfterOrder(initIxs, depositIxs) == initIxs \o <<OrderIx>> \o depositIxs

\* the pushes onto instructions, in the order of the source
ShortInstructionList(initIxs, depositIxs) == initIxs \o depositIxs \o <<OrderIx>>

\* the try/catch around getUser: the instructions it pushes
InitIxs(env) == IF env.userExists THEN <<>> ELSE [j \in 1..env.initIxs |-> InitIx(j)]

\* new BN(usdcAmount * 1e6)
UsdcPrecision(n) == n * 1000000

\* the flag without its second operand
UserInitializedArgExistsOnly(userInitialized, instructions) == userInitialized

\* userInitialized || instructions.length > 0: the last argument of the
\* deposit instruction
UserInitializedArg(userInitialized, instructions) ==
    userInitialized \/ Len(instructions) > 0

BuildDriftShortInstructions(env, d) ==
    CASE ~env.userExists /\ env.initIxs = -1 -> BuildThrows("getInitializeUserAccountIxs failed")
      [] DepositWanted(d) /\ ~env.depositIx -> BuildThrows("getDepositInstruction failed")
      [] ~env.oracle -> BuildThrows("Unable to get oracle data")
      [] ~env.orderIx -> BuildThrows("getPlacePerpOrderIx failed")
      [] OTHER ->
           BuildReturnsIxs(ShortInstructionList(
               InitIxs(env),
               IF DepositWanted(d)
               THEN <<DepositIx(UsdcPrecision(d.n),
                                  UserInitializedArg(env.userExists, InitIxs(env)))>>
               ELSE <<>>))

\* const computeUnits = depositAmount ? 800_000 : 600_000
ShortComputeUnits(d) == IF TruthyNumber(d) THEN 800000 ELSE 600000

Message(payer, blockhash, ixs) ==
    [payerKey |-> payer, recentBlockhash |-> blockhash, instructions |-> ixs]

BuildDriftShortTransaction(env, payer, d) ==
    LET ixs == BuildDriftShortInstructions(env, d) IN
    CASE ~env.marketKnown -> BuildThrows("Market not found")
      [] ixs.throws -> ixs
      [] ~env.blockhash -> BuildThrows("getLatestBlockhash failed")
      [] OTHER ->
           BuildReturnsTx(Message(payer, "h1",
               <<ComputeLimitIx(ShortComputeUnits(d)), ComputePriceIx(1000)>>
                   \o ixs.instructions))

\* usdcAmount is a number here and the deposit is unconditional
BuildDriftDepositTransaction(env, payer, d) ==
    CASE ~env.userExists /\ env.initIxs = -1 -> BuildThrows("getInitializeUserAccountIxs failed")
      [] ~env.depositIx -> BuildThrows("getDepositInstruction failed")
      [] ~env.blockhash -> BuildThrows("getLatestBlockhash failed")
      [] OTHER ->
           BuildReturnsTx(Message(payer, "h1",
               <<ComputeLimitIx(400000), ComputePriceIx(1000)>> \o InitIxs(env)
                   \o <<DepositIx(UsdcPrecision(d.n),
                                 UserInitializedArg(env.userExists, InitIxs(env)))>>))

CallBuildDriftShortInstructions ==
    /\ built = NoBuild
    /\ \E env \in BuildEnvs, d \in DepositAmounts :
           built' = [fn |-> "buildDriftShortInstructions", env |-> env, payer |-> "",
                     depositAmount |-> d, out |-> BuildDriftShortInstructions(env, d)]
    /\ UNCHANGED nonBuildVars

CallBuildDriftShortTransaction ==
    /\ built = NoBuild
    /\ \E env \in BuildEnvs, payer \in Payers, d \in DepositAmounts :
           built' = [fn |-> "buildDriftShortTransaction", env |-> env, payer |-> payer,
                     depositAmount |-> d, out |-> BuildDriftShortTransaction(env, payer, d)]
    /\ UNCHANGED nonBuildVars

CallBuildDriftDepositTransaction ==
    /\ built = NoBuild
    /\ \E env \in BuildEnvs, payer \in Payers,
          d \in {a \in DepositAmounts : a.kind = "number"} :
           built' = [fn |-> "buildDriftDepositTransaction", env |-> env, payer |-> payer,
                     depositAmount |-> d, out |-> BuildDriftDepositTransaction(env, payer, d)]
    /\ UNCHANGED nonBuildVars

\* the caller has taken what the builder gave; the next call can be made
BuildResultTaken ==
    /\ built # NoBuild
    /\ built' = NoBuild
    /\ UNCHANGED nonBuildVars

NextBuild ==
    \/ CallBuildDriftShortInstructions
    \/ CallBuildDriftShortTransaction
    \/ CallBuildDriftDepositTransaction
    \/ BuildResultTaken

SpecBuild == Init /\ [][NextBuild]_vars

-----------------------------------------------------------------------------
(* buildTokenTransferTransaction                                            *)

\* TokenTicker values, and a ticker TOKEN_ADDRESS has no entry for
Tokens == {"SOL", "USDC", "unknown"}
Recipients == {"r1", "invalid"}
TransferAmounts == {0, 1, 2}
\* what getAccount(connection, destinationATA) does: it resolves, or it
\* rejects with the error named
AccountLookups ==
    {"found", "TokenAccountNotFoundError", "TokenInvalidAccountOwnerError",
     "Network Error"}
TransferEnvs == [lookup : AccountLookups, blockhash : BOOLEAN]

MintOf(token) == <<"mint", token>>
\* getAssociatedTokenAddress(mint, owner)
AssociatedTokenAddress(mint, owner) == <<"ata", mint, owner>>

\* getTokenDecimals: SOL 9, USDC 6
TokenDecimals(token) == IF token = "SOL" THEN 9 ELSE 6

\* toBaseUnits: Math.floor(amount * Math.pow(10, decimals))
ToBaseUnits(amount, token) == amount * 10 ^ TokenDecimals(token)

CreateATAIx(payer, ata, owner, mint) ==
    [program |-> "AssociatedToken.create", payer |-> payer, ata |-> ata,
     owner |-> owner, mint |-> mint]
TransferIx(source, destination, owner, amount) ==
    [program |-> "Token.transfer", source |-> source, destination |-> destination,
     owner |-> owner, amount |-> amount]

\* a catch block that creates the account on every error
DestinationCheckAnyError(lookup, createATAIx) ==
    IF lookup = "found"
    THEN BuildReturnsIxs(<<>>)
    ELSE BuildReturnsIxs(<<createATAIx>>)

\* try { await getAccount(...) } catch (error) { if (error instanceof
\* TokenAccountNotFoundError) push createATAIx else throw error }: what the
\* block pushes, or what it throws
DestinationCheck(lookup, createATAIx) ==
    CASE lookup = "found" -> BuildReturnsIxs(<<>>)
      [] lookup = "TokenAccountNotFoundError" -> BuildReturnsIxs(<<createATAIx>>)
      [] OTHER -> BuildThrows(lookup)

BuildTokenTransferTransaction(env, sender, token, recipient, amount) ==
    LET mint == MintOf(token)
        sourceATA == AssociatedTokenAddress(mint, sender)
        destinationATA == AssociatedTokenAddress(mint, recipient)
        checked == DestinationCheck(env.lookup,
                       CreateATAIx(sender, destinationATA, recipient, mint))
    IN
    CASE token = "unknown" -> BuildThrows("Unknown token")
      [] recipient = "invalid" -> BuildThrows("Invalid public key input")
      [] checked.throws -> checked
      [] ~env.blockhash -> BuildThrows("getLatestBlockhash failed")
      [] OTHER ->
           BuildReturnsTx(Message(sender, "h1",
               <<ComputeLimitIx(100000), ComputePriceIx(1000)>>
                   \o checked.instructions
                   \o <<TransferIx(sourceATA, destinationATA, sender,
                                   ToBaseUnits(amount, token))>>))

CallBuildTokenTransferTransaction ==
    /\ built = NoBuild
    /\ \E env \in TransferEnvs, sender \in Payers, token \in Tokens,
          recipient \in Recipients, amount \in TransferAmounts :
           built' = [fn |-> "buildTokenTransferTransaction", env |-> env,
                     sender |-> sender, token |-> token, recipient |-> recipient,
                     amount |-> amount,
                     out |-> BuildTokenTransferTransaction(env, sender, token,
                                                           recipient, amount)]
    /\ UNCHANGED nonBuildVars

NextTransfer ==
    \/ CallBuildTokenTransferTransaction
    \/ BuildResultTaken

SpecTransfer == Init /\ [][NextTransfer]_vars

-----------------------------------------------------------------------------
(* Properties of the Drift short builders *)

\* a short builder has returned
ShortBuilt ==
    /\ built.fn \in {"buildDriftShortInstructions", "buildDriftShortTransaction"}
    /\ ~built.out.throws

\* the instructions of what the short builder returned
BuiltIxs ==
    IF built.fn = "buildDriftShortInstructions"
    THEN built.out.instructions
    ELSE built.out.transactions[1].instructions

\* the positions of the instructions of a program
Positions(ixs, program) == {i \in 1..Len(ixs) : ixs[i].program = program}

\* depositAmount was passed and is greater than 0
DepositSupplied == built.depositAmount.kind = "number" /\ built.depositAmount.n > 0

\* C13: when depositAmount is supplied and greater than 0, what the short
\* builder returns holds one deposit instruction, placed before the
\* place-perp-order instruction, and buildDriftShortTransaction returns that
\* in one transaction
C13_DepositBeforeOrder ==
    (ShortBuilt /\ DepositSupplied) =>
        /\ Cardinality(Positions(BuiltIxs, "Drift.deposit")) = 1
        /\ \A i \in Positions(BuiltIxs, "Drift.deposit") :
               \E j \in Positions(BuiltIxs, "Drift.placePerpOrder") : i < j
        /\ built.fn = "buildDriftShortTransaction" => Len(built.out.transactions) = 1

\* a short with a deposit of 10 USDC was built for a user that had to be
\* initialized with two instructions
C13_Witness ==
    /\ ShortBuilt
    /\ built.fn = "buildDriftShortTransaction"
    /\ built.depositAmount = [kind |-> "number", n |-> 10]
    /\ ~built.env.userExists
    /\ built.env.initIxs = 2

\* C14: what the short builder returns holds a deposit instruction exactly
\* when depositAmount is supplied and greater than 0, and its one
\* place-perp-order instruction is the last instruction
C14_DepositIffPositive ==
    ShortBuilt =>
        /\ (Positions(BuiltIxs, "Drift.deposit") # {}) <=> DepositSupplied
        /\ Positions(BuiltIxs, "Drift.placePerpOrder") = {Len(BuiltIxs)}

\* a short was built with depositAmount 0: the order without a deposit
C14_Witness ==
    /\ ShortBuilt
    /\ built.depositAmount = [kind |-> "number", n |-> 0]
    /\ Positions(BuiltIxs, "Drift.deposit") = {}
    /\ BuiltIxs[Len(BuiltIxs)] = OrderIx

\* a builder has returned
Built == built.fn # "none" /\ ~built.out.throws

\* C31: in what buildDriftShortInstructions, buildDriftShortTransaction and
\* buildDriftDepositTransaction return for a user account that does not exist,
\* the account-initialization instructions come before the deposit and the
\* order instructions; the deposit instruction carries userInitialized = true
\* exactly when the account exists or initialization instructions are in the
\* same list.
C31_InitBeforeDeposit ==
    Built =>
        /\ ~built.env.userExists =>
              /\ Cardinality(Positions(BuiltIxs, "Drift.initializeUser")) = built.env.initIxs
              /\ \A i \in Positions(BuiltIxs, "Drift.initializeUser") :
                     \A j \in Positions(BuiltIxs, "Drift.deposit")
                                 \cup Positions(BuiltIxs, "Drift.placePerpOrder") : i < j
        /\ \A j \in Positions(BuiltIxs, "Drift.deposit") :
               BuiltIxs[j].flag <=>
                   (built.env.userExists
                       \/ Positions(BuiltIxs, "Drift.initializeUser") # {})

\* a deposit transaction was built for a user that had to be initialized with
\* two instructions: they precede the deposit, which is flagged initialized
C31_Witness ==
    /\ Built
    /\ built.fn = "buildDriftDepositTransaction"
    /\ ~built.env.userExists /\ built.env.initIxs = 2
    /\ Positions(BuiltIxs, "Drift.initializeUser") = {3, 4}
    /\ BuiltIxs[5] = DepositIx(UsdcPrecision(10), TRUE)

\* the instructions of the transaction buildTokenTransferTransaction returned
TransferTxIxs == built.out.transactions[1].instructions

\* C32: the transaction buildTokenTransferTransaction returns holds a
\* create-associated-account instruction, before the transfer instruction,
\* exactly when the lookup of the destination account reported it as not
\* found; every other lookup error and an unknown token make the call fail
\* with no transaction; the transfer instruction is the last instruction.
C32_CreateAccountIffNotFound ==
    built.fn = "buildTokenTransferTransaction" =>
        /\ ~built.out.throws =>
              /\ Len(built.out.transactions) = 1
              /\ (Positions(TransferTxIxs, "AssociatedToken.create") # {})
                    <=> built.env.lookup = "TokenAccountNotFoundError"
              /\ Cardinality(Positions(TransferTxIxs, "AssociatedToken.create")) <= 1
              /\ \A i \in Positions(TransferTxIxs, "AssociatedToken.create") :
                     \A j \in Positions(TransferTxIxs, "Token.transfer") : i < j
              /\ Positions(TransferTxIxs, "Token.transfer") = {Len(TransferTxIxs)}
        /\ (built.token = "unknown"
               \/ built.env.lookup \notin {"found", "TokenAccountNotFoundError"})
           => (built.out.throws /\ built.out.transactions = <<>>)

\* a transfer of 2 SOL was built for a recipient without a token account: the
\* account is created at position 3 and the transfer follows at position 4
C32_Witness ==
    /\ built.fn = "buildTokenTransferTransaction" /\ ~built.out.throws
    /\ built.env.lookup = "TokenAccountNotFoundError"
    /\ built.token = "SOL" /\ built.amount = 2
    /\ TransferTxIxs[3].program = "AssociatedToken.create"
    /\ TransferTxIxs[4].program = "Token.transfer"
    /\ TransferTxIxs[4].amount = 2000000000
    /\ Len(TransferTxIxs) = 4

=============================================================================
